---- MODULE Spec2Model ----
(***************************************************************************)
(* Model of the VoiceDetectiveAI batch pipeline (src/main.py) and of the   *)
(* analysis client (src/voice_analyzer.py).                                *)
(*                                                                         *)
(* Python strings are modelled as sequences of one-character strings, so   *)
(* that split, strip, find, rfind, slicing and sorting are computed the    *)
(* way the interpreter computes them.                                      *)
(***************************************************************************)
EXTENDS Integers, Sequences, FiniteSets, TLC

(***************************************************************************)
(* Bounds of the model.                                                    *)
(***************************************************************************)
\* longest service response, in tokens, enumerated by SpecExtract
MaxRespLen == 4
\* largest number of records fed to generate_consolidated_insights
MaxRecords == 10

(***************************************************************************)
(* Python string primitives.                                               *)
(***************************************************************************)
\* ord(c) of the characters that occur in the modelled paths
Ord(c) ==
    CASE c = "." -> 46 [] c = "/" -> 47
      [] c = "1" -> 49 [] c = "2" -> 50 [] c = "3" -> 51
      [] c = "_" -> 95
      [] c = "a" -> 97 [] c = "b" -> 98 [] c = "c" -> 99 [] c = "d" -> 100
      [] c = "g" -> 103 [] c = "m" -> 109 [] c = "n" -> 110
      [] c = "o" -> 111 [] c = "p" -> 112 [] c = "t" -> 116
      [] c = "v" -> 118 [] c = "w" -> 119 [] c = "x" -> 120

\* str.__lt__: lexicographic comparison by code point
RECURSIVE StrLess(_, _)
StrLess(s, t) ==
    IF t = <<>> THEN FALSE
    ELSE IF s = <<>> THEN TRUE
    ELSE IF Ord(Head(s)) # Ord(Head(t)) THEN Ord(Head(s)) < Ord(Head(t))
    ELSE StrLess(Tail(s), Tail(t))

\* s[a:b] with 0-based, non-negative a and b (an empty string when b <= a)
Slice(s, a, b) ==
    LET hi == IF b > Len(s) THEN Len(s) ELSE b
    IN  IF a >= hi THEN <<>> ELSE SubSeq(s, a + 1, hi)

\* s.find(needle) where the needle is any one of the units in C:
\* 0-based index of the first occurrence, -1 when absent
FindIn(s, C) ==
    IF \E k \in 1..Len(s) : s[k] \in C
    THEN (CHOOSE k \in 1..Len(s) : s[k] \in C /\ \A l \in 1..(k - 1) : s[l] \notin C) - 1
    ELSE -1

\* s.rfind(needle): 0-based index of the last occurrence, -1 when absent
RFindIn(s, C) ==
    IF \E k \in 1..Len(s) : s[k] \in C
    THEN (CHOOSE k \in 1..Len(s) : s[k] \in C /\ \A l \in (k + 1)..Len(s) : s[l] \notin C) - 1
    ELSE -1

\* s.find(c) for a one-character needle
Find(s, c) == FindIn(s, {c})

\* s.split(sep) for a one-character separator
RECURSIVE Split(_, _)
Split(s, sep) ==
    LET k == Find(s, sep)
    IN  IF k = -1 THEN <<s>>
        ELSE <<Slice(s, 0, k)>> \o Split(Slice(s, k + 1, Len(s)), sep)

\* characters str.strip() removes
IsSpace(c) == c = " "

RECURSIVE LStrip(_)
LStrip(s) == IF s # <<>> /\ IsSpace(Head(s)) THEN LStrip(Tail(s)) ELSE s

RECURSIVE RStrip(_)
RStrip(s) ==
    IF s # <<>> /\ IsSpace(s[Len(s)]) THEN RStrip(SubSeq(s, 1, Len(s) - 1)) ELSE s

\* str.strip()
Strip(s) == RStrip(LStrip(s))

\* s.endswith(suffix)
EndsWith(s, suffix) ==
    /\ Len(s) >= Len(suffix)
    /\ SubSeq(s, Len(s) - Len(suffix) + 1, Len(s)) = suffix

\* os.path.basename(path): what follows the last "/"
RECURSIVE Basename(_)
Basename(path) ==
    LET k == Find(path, "/")
    IN  IF k = -1 THEN path ELSE Basename(Slice(path, k + 1, Len(path)))

(***************************************************************************)
(* The input directory.                                                    *)
(***************************************************************************)
\* the directory the run command reads ("voices/audio", abbreviated)
audio_directory_name == <<"d">>

\* os.path.join(directory, name)
PathJoin(directory, name) == directory \o <<"/">> \o name

\* file names a directory may hold: a_2_1.mp3, a_1_2.wav, b_1_1.ogg, c.mp3
\* and the non-audio n.txt
FilePool ==
    { <<"a", "_", "2", "_", "1", ".", "m", "p", "3">>,
      <<"a", "_", "1", "_", "2", ".", "w", "a", "v">>,
      <<"b", "_", "1", "_", "1", ".", "o", "g", "g">>,
      <<"c", ".", "m", "p", "3">>,
      <<"n", ".", "t", "x", "t">> }

\* the suffixes of the glob patterns *.mp3, *.wav, *.m4a, *.flac, *.aac, *.ogg
audio_extensions ==
    << <<".", "m", "p", "3">>, <<".", "w", "a", "v">>, <<".", "m", "4", "a">>,
       <<".", "f", "l", "a", "c">>, <<".", "a", "a", "c">>, <<".", "o", "g", "g">> >>

\* glob.glob(os.path.join(directory, "*" + ext)): the matching paths, as a set
\* (names starting with "." are hidden from "*")
Glob(directory, names, ext) ==
    { PathJoin(directory, n) : n \in { m \in names : EndsWith(m, ext) /\ Head(m) # "." } }

\* all enumerations of a finite set, the orders os.scandir may produce
Enumerations(S) ==
    { q \in [1..Cardinality(S) -> S] : \A x \in S : \E k \in DOMAIN q : q[k] = x }

\* list.insert in sorted position, the step of sorted()
RECURSIVE InsertSorted(_, _)
InsertSorted(sorted_list, x) ==
    IF sorted_list = <<>> THEN <<x>>
    ELSE IF StrLess(x, Head(sorted_list)) THEN <<x>> \o sorted_list
    ELSE <<Head(sorted_list)>> \o InsertSorted(Tail(sorted_list), x)

\* a plausible slip: the list is returned in discovery order
sorted_unsorted(list) == list

\* sorted(list) of strings
RECURSIVE sorted(_)
sorted(list) ==
    IF list = <<>> THEN <<>>
    ELSE InsertSorted(sorted(SubSeq(list, 1, Len(list) - 1)), list[Len(list)])

\* get_audio_files, given the order in which each glob call lists its matches
\* (listing[e] enumerates Glob(directory, names, audio_extensions[e]))
RECURSIVE ExtendAll(_, _)
ExtendAll(listing, e) ==
    IF e > Len(audio_extensions) THEN <<>> ELSE listing[e] \o ExtendAll(listing, e + 1)

get_audio_files(listing) == sorted(ExtendAll(listing, 1))

\* the listings the file system may give for a directory holding names:
\* one enumeration of the matches per glob pattern, from pattern e on
RECURSIVE ListingsFrom(_, _, _)
ListingsFrom(directory, names, e) ==
    IF e > Len(audio_extensions) THEN { <<>> }
    ELSE { <<h>> \o t : h \in Enumerations(Glob(directory, names, audio_extensions[e])),
                        t \in ListingsFrom(directory, names, e + 1) }

Listings(directory, names) == ListingsFrom(directory, names, 1)

(***************************************************************************)
(* Grouping by subject (main.py 63-66).                                    *)
(***************************************************************************)
\* subject_name = os.path.basename(f).split('_')[0]
SubjectOf(f) == Split(Basename(f), "_")[1]

\* grouped_files[subject_name].append(f) on an insertion-ordered dict,
\* modelled as a sequence of [subject, files] in insertion order
GroupAppend(groups, f) ==
    IF \E k \in 1..Len(groups) : groups[k].subject = SubjectOf(f)
    THEN [k \in 1..Len(groups) |->
            IF groups[k].subject = SubjectOf(f)
            THEN [groups[k] EXCEPT !.files = Append(@, f)]
            ELSE groups[k]]
    ELSE Append(groups, [subject |-> SubjectOf(f), files |-> <<f>>])

\* the loop "for f in all_files" of lines 64-66
RECURSIVE GroupFiles(_)
GroupFiles(files) ==
    IF files = <<>> THEN <<>>
    ELSE GroupAppend(GroupFiles(SubSeq(files, 1, Len(files) - 1)), files[Len(files)])

(***************************************************************************)
(* The analysis client (voice_analyzer.py).                                *)
(*                                                                         *)
(* A service response is a sequence of lexical units: "<fence>json" is    *)
(* the three-backquote fence followed by json, "<fence>" the fence alone;  *)
(* then the braces, one object member "k" (standing for                    *)
(* "revealed_truth": {"skill_mastery": "advanced"}), the digit "1", white  *)
(* space " " and other text "x".  Offsets are counted in units, so the     *)
(* code's find(opener) + 7 is the offset just after the opener.            *)
(***************************************************************************)
Tokens == { "<fence>json", "<fence>", "{", "}", "k", "1", " ", "x" }

\* the units in which the bare fence occurs as a substring
Fences == { "<fence>json", "<fence>" }

\* a JSON array with these items
PyList(items) == [is_list |-> TRUE, items |-> items]

\* Python values the client returns: a dict or an int.  Every value carries
\* the same fields; for a dict, keys is its key set, revealed_truth the
\* items of that member and deception_patterns the value of that member.
PyDict(keys, shadow_id, revealed_truth, deception_patterns) ==
    [kind |-> "dict", keys |-> keys, shadow_id |-> shadow_id,
     revealed_truth |-> revealed_truth, deception_patterns |-> deception_patterns,
     value |-> 0]

PyInt(n) ==
    [kind |-> "int", keys |-> {}, shadow_id |-> <<>>, revealed_truth |-> {},
     deception_patterns |-> [is_list |-> TRUE, items |-> <<>>], value |-> n]

\* the outcome of json.loads on text it rejects
JSONDecodeError ==
    [kind |-> "JSONDecodeError", keys |-> {}, shadow_id |-> <<>>, revealed_truth |-> {},
     deception_patterns |-> [is_list |-> TRUE, items |-> <<>>], value |-> 0]

\* int(text) for a text of n digits "1"
RECURSIVE Ones(_)
Ones(n) == IF n = 0 THEN 0 ELSE 10 * Ones(n - 1) + 1

\* json.loads(text): surrounding white space is skipped; a run of digits is
\* a number, "{" "}" the empty object, "{" "k" "}" the object with that
\* member; anything else raises JSONDecodeError
json_loads(text) ==
    LET t == Strip(text)
        inner == Strip(Slice(t, 1, Len(t) - 1))
    IN  IF t # <<>> /\ \A i \in 1..Len(t) : t[i] = "1"
        THEN PyInt(Ones(Len(t)))
        ELSE IF Len(t) >= 2 /\ t[1] = "{" /\ t[Len(t)] = "}"
        THEN IF inner = <<>>
             THEN PyDict({}, <<>>, {}, PyList(<<>>))
             ELSE IF inner = <<"k">>
             THEN PyDict({"revealed_truth"}, <<>>, {<<"skill_mastery", "advanced">>}, PyList(<<>>))
             ELSE JSONDecodeError
        ELSE JSONDecodeError

\* a slip: the default identifier is used instead of the caller's
fallback_anonymous(shadow_id, transcription_text) ==
    PyDict({"shadow_id", "revealed_truth", "deception_patterns"},
           <<"a", "n", "o", "n">>,
           {<<"error", "Analysis failed due to a technical error.">>},
           PyList(<<>>))

\* VoiceAnalyzer._get_fallback_analysis
get_fallback_analysis(shadow_id, transcription_text) ==
    PyDict({"shadow_id", "revealed_truth", "deception_patterns"},
           shadow_id,
           {<<"error", "Analysis failed due to a technical error.">>},
           PyList(<<>>))

\* a slip: the object is cut at the first "}" instead of the last
ExtractJson_firstBrace(response_text) ==
    IF FindIn(response_text, {"<fence>json"}) # -1
    THEN LET json_start == FindIn(response_text, {"<fence>json"}) + 1
             json_end == RFindIn(response_text, Fences)
         IN  [found |-> TRUE, json_text |-> Strip(Slice(response_text, json_start, json_end))]
    ELSE IF FindIn(response_text, {"{"}) # -1
    THEN LET json_start == FindIn(response_text, {"{"})
             json_end == FindIn(response_text, {"}"}) + 1
         IN  [found |-> TRUE, json_text |-> Slice(response_text, json_start, json_end)]
    ELSE [found |-> FALSE, json_text |-> <<>>]

\* lines 71-80: the text handed to json.loads, or "none" when the code
\* raises JSONDecodeError itself
ExtractJson(response_text) ==
    IF FindIn(response_text, {"<fence>json"}) # -1
    THEN LET json_start == FindIn(response_text, {"<fence>json"}) + 1
             json_end == RFindIn(response_text, Fences)
         IN  [found |-> TRUE, json_text |-> Strip(Slice(response_text, json_start, json_end))]
    ELSE IF FindIn(response_text, {"{"}) # -1
    THEN LET json_start == FindIn(response_text, {"{"})
             json_end == RFindIn(response_text, {"}"}) + 1
         IN  [found |-> TRUE, json_text |-> Slice(response_text, json_start, json_end)]
    ELSE [found |-> FALSE, json_text |-> <<>>]

\* VoiceAnalyzer.analyze_transcription, lines 67-92, given what
\* generate_content did: raised, or returned a response with this text
analyze_transcription(transcription_text, shadow_id, raised, text) ==
    IF raised
    THEN get_fallback_analysis(shadow_id, transcription_text)
    ELSE LET response_text == Strip(text)
             extracted == ExtractJson(response_text)
             analysis == json_loads(extracted.json_text)
         IN  IF ~extracted.found \/ analysis = JSONDecodeError
             THEN get_fallback_analysis(shadow_id, transcription_text)
             ELSE analysis

\* what generate_content may do: raise, or return one of these texts
ServiceOutcomes(texts) ==
    {[raised |-> TRUE, text |-> <<>>]} \cup {[raised |-> FALSE, text |-> t] : t \in texts}

\* the value of a variable that holds no result yet
PyNone ==
    [kind |-> "None", keys |-> {}, shadow_id |-> <<>>, revealed_truth |-> {},
     deception_patterns |-> [is_list |-> TRUE, items |-> <<>>], value |-> 0]

\* bool(value)
Truthy(v) == IF v.kind = "dict" THEN v.keys # {} ELSE v.value # 0

(***************************************************************************)
(* generate_consolidated_insights: the deception rate and its label.       *)
(***************************************************************************)
\* lines 241-246 for one record: the lie types it adds to deception_patterns.
\* An entry is [is_dict, lie_type]; lie_type is "" when the key is absent.
RECURSIVE TruthyLieTypes(_)
TruthyLieTypes(items) ==
    IF items = <<>> THEN <<>>
    ELSE LET pattern == Head(items)
         IN  (IF pattern.is_dict /\ pattern.lie_type # "" THEN <<pattern.lie_type>> ELSE <<>>)
             \o TruthyLieTypes(Tail(items))

LieTypesOf(analysis) ==
    IF analysis.deception_patterns.is_list
    THEN TruthyLieTypes(analysis.deception_patterns.items)
    ELSE <<>>

\* a slip: the comparisons are not strict
credibility_nonstrict(n_patterns, total_analyses) ==
    IF total_analyses > 0 /\ 10 * n_patterns >= 7 * total_analyses THEN "Low"
    ELSE IF total_analyses > 0 /\ 10 * n_patterns >= 4 * total_analyses THEN "Medium"
    ELSE IF total_analyses > 0 /\ 10 * n_patterns >= 1 * total_analyses THEN "Good"
    ELSE "High"

\* lines 288-298: deception_rate = n_patterns / total_analyses (0 when there
\* is no record) against 0.7, 0.4 and 0.1.  The quotient of two small
\* integers is compared exactly, as the correctly rounded float division is.
credibility(n_patterns, total_analyses) ==
    IF total_analyses > 0 /\ 10 * n_patterns > 7 * total_analyses THEN "Low"
    ELSE IF total_analyses > 0 /\ 10 * n_patterns > 4 * total_analyses THEN "Medium"
    ELSE IF total_analyses > 0 /\ 10 * n_patterns > 1 * total_analyses THEN "Good"
    ELSE "High"

\* the loop of lines 221-246 over all records
RECURSIVE CollectLieTypes(_)
CollectLieTypes(analyses) ==
    IF analyses = <<>> THEN <<>>
    ELSE LieTypesOf(Head(analyses)) \o CollectLieTypes(Tail(analyses))

\* analysis.get(...) raises AttributeError on a value that is not a dict
InsightsRaise(analyses) == \E k \in 1..Len(analyses) : analyses[k].kind # "dict"

generate_consolidated_insights(analyses) ==
    [overall_credibility_assessment |->
        credibility(Len(CollectLieTypes(analyses)), Len(analyses))]

(***************************************************************************)
(* The run: __main__ and process_multiple_audio_files (main.py).           *)
(***************************************************************************)
\* texts transcribe_audio may return: "h ", " w" and ""
TextPool == { <<"h", " ">>, <<" ", "w">>, <<>> }

\* responses generate_content may return in a run: a fenced object, the
\* empty object, text without JSON, a fenced number
ResponsePool ==
    { <<"<fence>json", "{", "k", "}", "<fence>">>,
      <<"{", "}">>,
      <<"x">>,
      <<"<fence>json", "1", "<fence>">> }

VARIABLES
    pc,                       \* where the run is
    dir_exists,               \* os.path.exists(audio_directory)
    dir_names,                \* names of the files in the directory
    api_key,                  \* whether GEMINI_API is set
    all_files,                \* main.py 54
    grouped_files,            \* main.py 63, as a sequence in insertion order
    i,                        \* 1-based position of the loop of line 102
    j,                        \* 1-based position of the loop of line 113
    combined_text,            \* main.py 107
    individual_file_metadata, \* main.py 108
    individual_analyses,      \* comprehensive_analysis["individual_analyses"]
    successful_analyses,      \* main.py 97
    retval,                   \* what process_multiple_audio_files returned
    output_writes,            \* how many times the output file was written
    written_analyses,         \* individual_analyses as last written to it
    written_credibility,      \* the label written with them
    exit_code,                \* exit status of the process, -1 while running
    unhandled,                \* the exception that ended the process, or ""
    printed,                  \* messages reported to the operator
    calls                     \* calls made to the two external services

runVars ==
    <<pc, dir_exists, dir_names, api_key, all_files, grouped_files, i, j,
      combined_text, individual_file_metadata, individual_analyses,
      successful_analyses, retval, output_writes, written_analyses,
      written_credibility, exit_code, unhandled, printed, calls>>

\* the state of one call of analyze_transcription taken on its own
VARIABLES
    x_pc,         \* "idle", "call" or "done"
    x_shadow_id,  \* the shadow_id argument
    x_outcome,    \* what generate_content does in this call
    x_result      \* the value analyze_transcription returned

extractVars == <<x_pc, x_shadow_id, x_outcome, x_result>>

\* the state of one call of generate_consolidated_insights taken on its own
VARIABLES
    g_pc,                \* "idle", "collect" or "done"
    total_analyses,      \* len(analyses), the records gone through so far
    deception_patterns,  \* main.py 219
    entries_seen,        \* entries of the deception-pattern lists gone through
    tagged_seen,         \* those that are objects with a non-empty lie_type
    g_credibility        \* the label of lines 291-298, "" before

insightsVars ==
    <<g_pc, total_analyses, deception_patterns, entries_seen, tagged_seen, g_credibility>>

Message(msg, subject) == [msg |-> msg, subject |-> subject]

TranscribeCall(subject, audio_file, ok, text) ==
    [op |-> "transcribe", subject |-> subject, arg |-> audio_file, input |-> <<>>,
     ok |-> ok, out |-> text]

AnalyzeCall(subject, shadow_id, transcription_text, raised, text) ==
    [op |-> "analyze", subject |-> subject, arg |-> shadow_id,
     input |-> transcription_text, ok |-> ~raised, out |-> text]

RunInit ==
    /\ pc = "main"
    /\ dir_exists \in BOOLEAN
    /\ dir_names \in SUBSET FilePool
    /\ ~dir_exists => dir_names = {}
    /\ api_key \in BOOLEAN
    /\ all_files = <<>>
    /\ grouped_files = <<>>
    /\ i = 0
    /\ j = 0
    /\ combined_text = <<>>
    /\ individual_file_metadata = <<>>
    /\ individual_analyses = <<>>
    /\ successful_analyses = <<>>
    /\ retval = "running"
    /\ output_writes = 0
    /\ written_analyses = <<>>
    /\ written_credibility = ""
    /\ exit_code = -1
    /\ unhandled = ""
    /\ printed = {}
    /\ calls = <<>>

\* main.py 309-314: the directory is missing; it is created and the script
\* runs off its end
MainMissingDirectory ==
    /\ pc = "main"
    /\ ~dir_exists
    /\ dir_exists' = TRUE
    /\ printed' = printed \cup {Message("Directory not found", 0)}
    /\ pc' = "exited"
    /\ exit_code' = 0
    /\ UNCHANGED <<dir_names, api_key, all_files, grouped_files, i, j, combined_text,
                   individual_file_metadata, individual_analyses, successful_analyses,
                   retval, output_writes, written_analyses, written_credibility,
                   unhandled, calls>>
    /\ UNCHANGED <<extractVars, insightsVars>>

\* main.py 316-322 and 54-97: the call, the scan, the grouping and the
\* construction of the analyzer (voice_analyzer.py 10-17)
StartProcessing ==
    /\ pc = "main"
    /\ dir_exists
    /\ \E listing \in Listings(audio_directory_name, dir_names) :
         LET files == get_audio_files(listing)
         IN  /\ all_files' = files
             /\ IF files = <<>>
                THEN /\ printed' = printed \cup {Message("No audio files found", 0)}
                     /\ retval' = "None"
                     /\ pc' = "returned"
                     /\ UNCHANGED <<grouped_files, i, exit_code, unhandled>>
                ELSE /\ grouped_files' = GroupFiles(files)
                     /\ printed' = printed \cup {Message("Found audio files", 0)}
                     /\ IF api_key
                        THEN /\ pc' = "loop"
                             /\ i' = 1
                             /\ UNCHANGED <<retval, exit_code, unhandled>>
                        ELSE /\ pc' = "exited"
                             /\ exit_code' = 1
                             /\ unhandled' = "ValueError"
                             /\ UNCHANGED <<retval, i>>
    /\ UNCHANGED <<dir_exists, dir_names, api_key, j, combined_text,
                   individual_file_metadata, individual_analyses, successful_analyses,
                   output_writes, written_analyses, written_credibility, calls>>
    /\ UNCHANGED <<extractVars, insightsVars>>

\* main.py 102-112: the next subject group
NextSubject ==
    /\ pc = "loop"
    /\ i <= Len(grouped_files)
    /\ combined_text' = <<>>
    /\ individual_file_metadata' = <<>>
    /\ j' = 1
    /\ pc' = "transcribe"
    /\ UNCHANGED <<dir_exists, dir_names, api_key, all_files, grouped_files, i,
                   individual_analyses, successful_analyses, retval, output_writes,
                   written_analyses, written_credibility, exit_code, unhandled,
                   printed, calls>>
    /\ UNCHANGED <<extractVars, insightsVars>>

\* a slip: no separator is added
combine_nospace(text_so_far, text) == text_so_far \o text

\* main.py 117: combined_text += text + " "
combine(text_so_far, text) == text_so_far \o text \o <<" ">>

\* a slip: the subject that failed is gone through again
after_error_retry(subject_index, total_subjects) == subject_index

\* a slip: the failure ends the loop over the subjects
after_error_break(subject_index, total_subjects) == total_subjects + 1

\* main.py 167-169: continue with the next subject
after_error(subject_index, total_subjects) == subject_index + 1

\* main.py 113-122: one file is transcribed
TranscribeFile ==
    /\ pc = "transcribe"
    /\ j <= Len(grouped_files[i].files)
    /\ \E text \in TextPool :
         LET audio_file == grouped_files[i].files[j]
             filename == Basename(audio_file)
         IN  /\ combined_text' = combine(combined_text, text)
             /\ individual_file_metadata' =
                  Append(individual_file_metadata,
                         [filename |-> filename, filepath |-> audio_file,
                          transcription_length |-> Len(text)])
             /\ calls' = Append(calls, TranscribeCall(i, audio_file, TRUE, text))
    /\ j' = j + 1
    /\ UNCHANGED <<pc, dir_exists, dir_names, api_key, all_files, grouped_files, i,
                   individual_analyses, successful_analyses, retval, output_writes,
                   written_analyses, written_credibility, exit_code, unhandled, printed>>
    /\ UNCHANGED <<extractVars, insightsVars>>

\* main.py 116 raising, caught at 167-169
TranscribeFails ==
    /\ pc = "transcribe"
    /\ j <= Len(grouped_files[i].files)
    /\ calls' = Append(calls, TranscribeCall(i, grouped_files[i].files[j], FALSE, <<>>))
    /\ printed' = printed \cup {Message("Error processing", i)}
    /\ i' = after_error(i, Len(grouped_files))
    /\ pc' = "loop"
    /\ UNCHANGED <<dir_exists, dir_names, api_key, all_files, grouped_files, j,
                   combined_text, individual_file_metadata, individual_analyses,
                   successful_analyses, retval, output_writes, written_analyses,
                   written_credibility, exit_code, unhandled>>
    /\ UNCHANGED <<extractVars, insightsVars>>

\* main.py 129: the segments of the first file's name
YearSegments(subject_files) == Split(Basename(subject_files[1]), "_")

\* main.py 130
ShadowId(subject_name, year) == subject_name \o <<"_">> \o year

\* main.py 142-151
SubjectAnalysis(subject_name, shadow_id, metadata, text, analysis) ==
    [subject_name |-> subject_name,
     shadow_id |-> shadow_id,
     processed_files |-> [k \in 1..Len(metadata) |-> metadata[k].filename],
     full_transcription_text |-> text,
     total_transcription_length |-> Len(text),
     truth_weaver_analysis |-> analysis]

\* main.py 124-129 when the first file's name has no second segment:
\* split(...)[1] raises IndexError, caught at 167-169
YearIndexError ==
    /\ pc = "transcribe"
    /\ j > Len(grouped_files[i].files)
    /\ Len(YearSegments(grouped_files[i].files)) < 2
    /\ combined_text' = Strip(combined_text)
    /\ printed' = printed \cup {Message("Error processing", i)}
    /\ i' = after_error(i, Len(grouped_files))
    /\ pc' = "loop"
    /\ UNCHANGED <<dir_exists, dir_names, api_key, all_files, grouped_files, j,
                   individual_file_metadata, individual_analyses, successful_analyses,
                   retval, output_writes, written_analyses, written_credibility,
                   exit_code, unhandled, calls>>
    /\ UNCHANGED <<extractVars, insightsVars>>

\* main.py 124-169: the combined text is analyzed and the result recorded
AnalyzeSubject ==
    /\ pc = "transcribe"
    /\ j > Len(grouped_files[i].files)
    /\ Len(YearSegments(grouped_files[i].files)) >= 2
    /\ \E outcome \in ServiceOutcomes(ResponsePool) :
         LET subject_name == grouped_files[i].subject
             stripped == Strip(combined_text)
             year == YearSegments(grouped_files[i].files)[2]
             shadow_id == ShadowId(subject_name, year)
             raised == outcome.raised
             response == outcome.text
             analysis == analyze_transcription(stripped, shadow_id, raised, response)
         IN  /\ combined_text' = stripped
             /\ calls' = Append(calls, AnalyzeCall(i, shadow_id, stripped, raised, response))
             /\ IF Truthy(analysis)
                THEN /\ individual_analyses' =
                          Append(individual_analyses,
                                 SubjectAnalysis(subject_name, shadow_id,
                                                 individual_file_metadata, stripped, analysis))
                     /\ successful_analyses' = Append(successful_analyses, analysis)
                     \* line 159: analysis.get raises AttributeError on a
                     \* value that is not a dict, caught at 167-169
                     /\ printed' = printed \cup
                          {IF analysis.kind = "dict"
                           THEN Message("Analysis completed", i)
                           ELSE Message("Error processing", i)}
                ELSE /\ printed' = printed \cup {Message("Failed to analyze", i)}
                     /\ UNCHANGED <<individual_analyses, successful_analyses>>
    /\ i' = i + 1
    /\ pc' = "loop"
    /\ UNCHANGED <<dir_exists, dir_names, api_key, all_files, grouped_files, j,
                   individual_file_metadata, retval, output_writes, written_analyses,
                   written_credibility, exit_code, unhandled>>
    /\ UNCHANGED <<extractVars, insightsVars>>

\* main.py 174-201 with no successful analysis
NothingToConsolidate ==
    /\ pc = "loop"
    /\ i > Len(grouped_files)
    /\ successful_analyses = <<>>
    /\ printed' = printed \cup {Message("No successful analyses to consolidate", 0)}
    /\ retval' = "(None, None)"
    /\ pc' = "returned"
    /\ UNCHANGED <<dir_exists, dir_names, api_key, all_files, grouped_files, i, j,
                   combined_text, individual_file_metadata, individual_analyses,
                   successful_analyses, output_writes, written_analyses,
                   written_credibility, exit_code, unhandled, calls>>
    /\ UNCHANGED <<extractVars, insightsVars>>

\* main.py 174-198: the insights are computed and the report is written;
\* open() or json.dump may fail (write_ok = FALSE)
Consolidate ==
    /\ pc = "loop"
    /\ i > Len(grouped_files)
    /\ successful_analyses # <<>>
    /\ IF InsightsRaise(successful_analyses)
       THEN /\ pc' = "exited"
            /\ exit_code' = 1
            /\ unhandled' = "AttributeError"
            /\ UNCHANGED <<retval, output_writes, written_analyses,
                           written_credibility, printed>>
       ELSE /\ \E write_ok \in BOOLEAN :
                 IF write_ok
                 THEN /\ output_writes' = output_writes + 1
                      /\ written_analyses' = individual_analyses
                      /\ written_credibility' =
                           generate_consolidated_insights(successful_analyses)
                               .overall_credibility_assessment
                      /\ printed' = printed \cup {Message("Analysis saved", 0)}
                      /\ retval' = "(analysis, output_file)"
                 ELSE /\ printed' = printed \cup {Message("Error saving", 0)}
                      /\ retval' = "(None, None)"
                      /\ UNCHANGED <<output_writes, written_analyses, written_credibility>>
            /\ pc' = "returned"
            /\ UNCHANGED <<exit_code, unhandled>>
    /\ UNCHANGED <<dir_exists, dir_names, api_key, all_files, grouped_files, i, j,
                   combined_text, individual_file_metadata, individual_analyses,
                   successful_analyses, calls>>
    /\ UNCHANGED <<extractVars, insightsVars>>

\* main.py 319-344: the result is unpacked; unpacking None raises TypeError
MainFinish ==
    /\ pc = "returned"
    /\ IF retval = "None"
       THEN /\ exit_code' = 1
            /\ unhandled' = "TypeError"
            /\ UNCHANGED printed
       ELSE /\ exit_code' = 0
            /\ printed' = printed \cup
                 {IF retval = "(analysis, output_file)"
                  THEN Message("Comprehensive analysis completed", 0)
                  ELSE Message("Failed to complete comprehensive analysis", 0)}
            /\ UNCHANGED unhandled
    /\ pc' = "exited"
    /\ UNCHANGED <<dir_exists, dir_names, api_key, all_files, grouped_files, i, j,
                   combined_text, individual_file_metadata, individual_analyses,
                   successful_analyses, retval, output_writes, written_analyses,
                   written_credibility, calls>>
    /\ UNCHANGED <<extractVars, insightsVars>>

Next ==
    \/ MainMissingDirectory
    \/ StartProcessing
    \/ NextSubject
    \/ TranscribeFile
    \/ TranscribeFails
    \/ YearIndexError
    \/ AnalyzeSubject
    \/ NothingToConsolidate
    \/ Consolidate
    \/ MainFinish

(***************************************************************************)
(* analyze_transcription on its own, over every response of bounded length *)
(***************************************************************************)
\* shadow identifiers the client is called with: a_1 and b_1
ShadowPool == { <<"a", "_", "1">>, <<"b", "_", "1">> }

\* all texts of at most n units
RECURSIVE TextsUpTo(_)
TextsUpTo(n) ==
    IF n = 0 THEN { <<>> }
    ELSE LET shorter == TextsUpTo(n - 1)
         IN  shorter \cup { Append(t, u) : t \in { q \in shorter : Len(q) = n - 1 }, u \in Tokens }

ExtractIdle ==
    /\ x_pc = "idle"
    /\ x_shadow_id = <<>>
    /\ x_outcome = [raised |-> TRUE, text |-> <<>>]
    /\ x_result = PyNone

ExtractInit ==
    /\ x_pc = "call"
    /\ x_shadow_id \in ShadowPool
    /\ x_outcome \in ServiceOutcomes(TextsUpTo(MaxRespLen))
    /\ x_result = PyNone

\* voice_analyzer.py 19-92: one call of analyze_transcription
CallAnalyze ==
    /\ x_pc = "call"
    /\ x_result' = analyze_transcription(<<>>, x_shadow_id, x_outcome.raised, x_outcome.text)
    /\ x_pc' = "done"
    /\ UNCHANGED <<x_shadow_id, x_outcome>>
    /\ UNCHANGED <<runVars, insightsVars>>

(***************************************************************************)
(* generate_consolidated_insights on its own: the records of the list are  *)
(* supplied one by one to the loop of lines 221-246.                       *)
(***************************************************************************)
Pattern(is_dict, lie_type) == [is_dict |-> is_dict, lie_type |-> lie_type]

\* deception_patterns values of the records: no entry, one or two tagged
\* entries, an entry with an empty or missing lie_type, an entry that is not
\* an object, a tagged and an untagged entry, a value that is not a list
DeceptionPool ==
    { PyList(<<>>),
      PyList(<<Pattern(TRUE, "fabricated")>>),
      PyList(<<Pattern(TRUE, "fabricated"), Pattern(TRUE, "fabricated")>>),
      PyList(<<Pattern(TRUE, "")>>),
      PyList(<<Pattern(FALSE, "")>>),
      PyList(<<Pattern(TRUE, "fabricated"), Pattern(TRUE, "")>>),
      [is_list |-> FALSE, items |-> <<>>] }

RecordPool ==
    { PyDict({"shadow_id", "revealed_truth", "deception_patterns"}, <<"a", "_", "1">>, {}, d) :
        d \in DeceptionPool }

InsightsIdle ==
    /\ g_pc = "idle"
    /\ total_analyses = 0
    /\ deception_patterns = <<>>
    /\ entries_seen = 0
    /\ tagged_seen = 0
    /\ g_credibility = ""

InsightsInit ==
    /\ g_pc = "collect"
    /\ total_analyses = 0
    /\ deception_patterns = <<>>
    /\ entries_seen = 0
    /\ tagged_seen = 0
    /\ g_credibility = ""

\* main.py 221-246: one iteration of the loop over analyses
CollectRecord ==
    /\ g_pc = "collect"
    /\ total_analyses < MaxRecords
    /\ \E analysis \in RecordPool :
         LET items == analysis.deception_patterns.items
         IN  /\ deception_patterns' = deception_patterns \o LieTypesOf(analysis)
             /\ entries_seen' = entries_seen + Len(items)
             /\ tagged_seen' = tagged_seen +
                  Cardinality({k \in 1..Len(items) :
                                  items[k].is_dict /\ items[k].lie_type # ""})
    /\ total_analyses' = total_analyses + 1
    /\ UNCHANGED <<g_pc, g_credibility>>
    /\ UNCHANGED <<runVars, extractVars>>

\* main.py 287-300: the label
AssessCredibility ==
    /\ g_pc = "collect"
    /\ g_credibility' = credibility(Len(deception_patterns), total_analyses)
    /\ g_pc' = "done"
    /\ UNCHANGED <<total_analyses, deception_patterns, entries_seen, tagged_seen>>
    /\ UNCHANGED <<runVars, extractVars>>

(***************************************************************************)
(* Specifications.                                                         *)
(***************************************************************************)
vars == <<runVars, extractVars, insightsVars>>

RunIdle ==
    /\ pc = "idle"
    /\ dir_exists = FALSE
    /\ dir_names = {}
    /\ api_key = FALSE
    /\ all_files = <<>>
    /\ grouped_files = <<>>
    /\ i = 0
    /\ j = 0
    /\ combined_text = <<>>
    /\ individual_file_metadata = <<>>
    /\ individual_analyses = <<>>
    /\ successful_analyses = <<>>
    /\ retval = "running"
    /\ output_writes = 0
    /\ written_analyses = <<>>
    /\ written_credibility = ""
    /\ exit_code = -1
    /\ unhandled = ""
    /\ printed = {}
    /\ calls = <<>>

\* a run of the command
Init == RunInit /\ ExtractIdle /\ InsightsIdle
Spec == Init /\ [][Next]_vars

\* one call of analyze_transcription
InitExtract == RunIdle /\ ExtractInit /\ InsightsIdle
NextExtract == CallAnalyze
SpecExtract == InitExtract /\ [][NextExtract]_vars

\* one call of generate_consolidated_insights
InitInsights == RunIdle /\ ExtractIdle /\ InsightsInit
NextInsights ==
    \/ CollectRecord
    \/ AssessCredibility
SpecInsights == InitInsights /\ [][NextInsights]_vars

(***************************************************************************)
(* Vocabulary of the properties of a run.                                  *)
(***************************************************************************)
\* the calls made for the subject at position t of the processing order
CallsOf(t) == SelectSeq(calls, LAMBDA c : c.subject = t)

TranscriptionsOf(t) == SelectSeq(calls, LAMBDA c : c.subject = t /\ c.op = "transcribe")

AnalysesOf(t) == SelectSeq(calls, LAMBDA c : c.subject = t /\ c.op = "analyze")

\* the entries of individual_analyses that belong to that subject
EntriesOf(t) ==
    SelectSeq(individual_analyses, LAMBDA e : e.subject_name = grouped_files[t].subject)

\* the loop of line 102 is done with the subject at position t
Finished(t) == t \in 1..Len(grouped_files) /\ i > t

\* transcription of one file of the subject failed
TranscriptionFailed(t) == \E k \in 1..Len(calls) :
    calls[k].op = "transcribe" /\ calls[k].subject = t /\ ~calls[k].ok

\* every file of the subject was transcribed, in the group's order
AllTranscribed(t) ==
    LET trs == TranscriptionsOf(t)
    IN  /\ Len(trs) = Len(grouped_files[t].files)
        /\ \A k \in 1..Len(trs) : trs[k].ok /\ trs[k].arg = grouped_files[t].files[k]

\* the subject was gone through on its own terms: its files were transcribed
\* from the first one on until one failed, the service was called exactly
\* when all succeeded and the name of the first file has a year segment, and
\* its entry is the one its own transcriptions and response determine
ProcessedOnOwnTerms(t) ==
    LET trs == TranscriptionsOf(t)
        ans == AnalysesOf(t)
        files == grouped_files[t].files
        entries == EntriesOf(t)
    IN  /\ Len(trs) >= 1
        /\ Len(trs) <= Len(files)
        /\ \A k \in 1..Len(trs) : trs[k].arg = files[k]
        /\ \A k \in 1..(Len(trs) - 1) : trs[k].ok
        /\ Len(trs) < Len(files) => ~trs[Len(trs)].ok
        /\ Len(ans) = (IF AllTranscribed(t) /\ Len(Split(Basename(files[1]), "_")) >= 2
                       THEN 1 ELSE 0)
        /\ IF Len(ans) = 1 /\ Truthy(analyze_transcription(ans[1].input, ans[1].arg,
                                                           ~ans[1].ok, ans[1].out))
           THEN /\ Len(entries) = 1
                /\ entries[1].shadow_id = ans[1].arg
                /\ entries[1].full_transcription_text = ans[1].input
                /\ entries[1].processed_files = [k \in 1..Len(files) |-> Basename(files[k])]
                /\ entries[1].truth_weaver_analysis =
                     analyze_transcription(ans[1].input, ans[1].arg, ~ans[1].ok, ans[1].out)
           ELSE entries = <<>>

(***************************************************************************)
(* C1.  Subject-level isolation: when transcription of a file of subject S *)
(* fails, S has no entry in individual_analyses, the analysis service is   *)
(* not called for S, and every subject after S in processing order is      *)
(* still gone through, with the result its own files and service outcomes  *)
(* determine.                                                              *)
(***************************************************************************)
C1_SubjectIsolation ==
    \A s \in 1..Len(grouped_files) :
        (Finished(s) /\ TranscriptionFailed(s)) =>
            /\ EntriesOf(s) = <<>>
            /\ AnalysesOf(s) = <<>>
            /\ \A t \in (s + 1)..Len(grouped_files) :
                 /\ pc = "exited" => Finished(t)
                 /\ Finished(t) => ProcessedOnOwnTerms(t)

\* a finished run in which the first subject failed and a later one has its entry
C1_Witness ==
    /\ pc = "exited"
    /\ \E s \in 1..Len(grouped_files) :
         /\ TranscriptionFailed(s)
         /\ \E t \in (s + 1)..Len(grouped_files) : Len(EntriesOf(t)) = 1

(***************************************************************************)
(* C2.  An analysis failure never aborts a subject: for every subject      *)
(* whose files were all transcribed and for which the analysis service was *)
(* called, whatever the service did, exactly one entry for that subject is *)
(* in individual_analyses once the loop is done with it.                   *)
(***************************************************************************)
C2_OneEntryPerAnalyzedSubject ==
    \A t \in 1..Len(grouped_files) :
        (Finished(t) /\ AllTranscribed(t) /\ Len(AnalysesOf(t)) = 1) =>
            Len(EntriesOf(t)) = 1

(***************************************************************************)
(* Vocabulary of the properties of one call of analyze_transcription.      *)
(***************************************************************************)
\* the call has returned
Returned == x_pc = "done"

\* the service raised, or what the code took from its response does not parse
Unavailable ==
    \/ x_outcome.raised
    \/ ~ExtractJson(Strip(x_outcome.text)).found
    \/ json_loads(ExtractJson(Strip(x_outcome.text)).json_text) = JSONDecodeError

\* positions of the units of r that are in C
Positions(r, C) == {k \in 1..Len(r) : r[k] \in C}

Least(S) == CHOOSE k \in S : \A l \in S : k <= l

Greatest(S) == CHOOSE k \in S : \A l \in S : l <= k

\* the units of r strictly between positions lo and hi
Between(r, lo, hi) ==
    [k \in 1..(IF hi - lo - 1 > 0 THEN hi - lo - 1 ELSE 0) |-> r[lo + k]]

\* rule (1): what lies between the JSON fence opener and the last fence
FencedCandidate(r) ==
    Between(r, Least(Positions(r, {"<fence>json"})), Greatest(Positions(r, Fences)))

\* rule (2): from the first "{" to the last "}", both included
BracedCandidate(r) ==
    Between(r, Least(Positions(r, {"{"})) - 1, Greatest(Positions(r, {"}"})) + 1)

\* the parsed candidate, or the fallback record when it does not parse
ParsedOrFallback(candidate, shadow_id) ==
    IF json_loads(candidate) = JSONDecodeError
    THEN get_fallback_analysis(shadow_id, <<>>)
    ELSE json_loads(candidate)

\* the well-formed JSON objects over the units
Objects == { <<"{", "}">>, <<"{", "k", "}">>, <<"{", " ", "k", "}">> }

\* r is obj wrapped in a JSON fence: opener, obj, closing fence, with no
\* fence before the opener and none after the closing one
FenceWrapped(r, obj) ==
    \E a \in 1..Len(r) :
        /\ a + Len(obj) + 1 <= Len(r)
        /\ r[a] = "<fence>json"
        /\ SubSeq(r, a + 1, a + Len(obj)) = obj
        /\ r[a + Len(obj) + 1] = "<fence>"
        /\ \A k \in 1..Len(r) : (k < a \/ k > a + Len(obj) + 1) => r[k] \notin Fences

\* r is obj with text around it that holds no brace and no JSON fence
BraceWrapped(r, obj) ==
    \E a \in 1..Len(r) :
        /\ a + Len(obj) - 1 <= Len(r)
        /\ SubSeq(r, a, a + Len(obj) - 1) = obj
        /\ \A k \in 1..Len(r) :
             (k < a \/ k > a + Len(obj) - 1) => r[k] \notin {"{", "}", "<fence>json"}

(***************************************************************************)
(* C3, as stated.  Whenever the service raises or its response cannot be   *)
(* parsed, the returned record has the caller's shadow_id, its             *)
(* skill-mastery field is "unknown" and its deception-pattern list holds   *)
(* exactly one entry, tagged as the unavailable-analysis marker.           *)
(***************************************************************************)
C3_FallbackHasSentinelAndMarker ==
    (Returned /\ Unavailable) =>
        /\ x_result.shadow_id = x_shadow_id
        /\ <<"skill_mastery", "unknown">> \in x_result.revealed_truth
        /\ x_result.deception_patterns.is_list
        /\ Len(x_result.deception_patterns.items) = 1
        /\ x_result.deception_patterns.items[1].is_dict
        /\ x_result.deception_patterns.items[1].lie_type # ""

(***************************************************************************)
(* C3, amended.  Whenever the service raises or its response cannot be     *)
(* parsed, the returned record has the caller's shadow_id, its             *)
(* revealed_truth holds only an error message (no skill-mastery field) and *)
(* its deception-pattern list is empty.                                    *)
(***************************************************************************)
C3_FallbackShape ==
    (Returned /\ Unavailable) =>
        /\ x_result.kind = "dict"
        /\ x_result.keys = {"shadow_id", "revealed_truth", "deception_patterns"}
        /\ x_result.shadow_id = x_shadow_id
        /\ x_result.revealed_truth = {<<"error", "Analysis failed due to a technical error.">>}
        /\ x_result.deception_patterns = PyList(<<>>)

\* the service raised for b_1, and the fallback record came back
C3_Witness ==
    /\ Returned
    /\ x_outcome.raised
    /\ x_shadow_id = <<"b", "_", "1">>
    /\ x_result.shadow_id = <<"b", "_", "1">>
    /\ x_result.deception_patterns.items = <<>>

(***************************************************************************)
(* C4, as stated.  The candidate is chosen by the first rule that applies: *)
(* (1) a JSON fence: what lies between the fence markers; (2) else both    *)
(* "{" and "}": from the first "{" to the last "}"; (3) else the whole     *)
(* response.  The candidate is parsed; a response that does not parse      *)
(* gives the fallback record with the caller's shadow_id.                  *)
(***************************************************************************)
C4_CandidateAsStated(r) ==
    IF Positions(r, {"<fence>json"}) # {} THEN FencedCandidate(r)
    ELSE IF Positions(r, {"{"}) # {} /\ Positions(r, {"}"}) # {} THEN BracedCandidate(r)
    ELSE r

C4_ExtractionAsStated ==
    (Returned /\ ~x_outcome.raised) =>
        x_result = ParsedOrFallback(C4_CandidateAsStated(Strip(x_outcome.text)), x_shadow_id)

(***************************************************************************)
(* C4, amended.  The candidate is chosen by the first rule that applies:   *)
(* (1) a JSON fence: what lies between the opener and the last fence;      *)
(* (2) else a "{": from the first "{" to the last "}" (nothing when no "}" *)
(* follows it); (3) else there is no candidate and the fallback record is  *)
(* returned.  A response that wraps one well-formed object in a JSON fence *)
(* or in bare braces gives that object; a response whose candidate does    *)
(* not parse, or that has no candidate, gives the fallback record with the *)
(* caller's shadow_id.                                                     *)
(***************************************************************************)
C4_Extraction ==
    (Returned /\ ~x_outcome.raised) =>
        LET r == Strip(x_outcome.text)
        IN  /\ x_result =
                 (IF Positions(r, {"<fence>json"}) # {}
                  THEN ParsedOrFallback(FencedCandidate(r), x_shadow_id)
                  ELSE IF Positions(r, {"{"}) # {}
                  THEN ParsedOrFallback(
                         IF Positions(r, {"}"}) # {} THEN BracedCandidate(r) ELSE <<>>,
                         x_shadow_id)
                  ELSE get_fallback_analysis(x_shadow_id, <<>>))
            /\ \A obj \in Objects :
                 (FenceWrapped(r, obj) \/ BraceWrapped(r, obj)) => x_result = json_loads(obj)
            /\ (Positions(r, {"<fence>json", "{"}) = {}) =>
                 x_result = get_fallback_analysis(x_shadow_id, <<>>)

\* the object came back from inside a JSON fence
C4_Witness ==
    /\ Returned
    /\ x_outcome.text = <<"<fence>json", "{", "}", "<fence>">>
    /\ x_result = json_loads(<<"{", "}">>)

(***************************************************************************)
(* C5.  For every subject whose files were all transcribed, the combined   *)
(* text, as left in combined_text, as passed to the analysis service and   *)
(* as stored in full_transcription_text, is the transcriptions t1..tn in   *)
(* group order joined with one space between consecutive ones, with the    *)
(* leading and trailing white space of the whole removed.                  *)
(***************************************************************************)
\* t1 + " " + t2 + " " + ... + tn
RECURSIVE JoinedWithSpace(_)
JoinedWithSpace(texts) ==
    IF texts = <<>> THEN <<>>
    ELSE IF Len(texts) = 1 THEN texts[1]
    ELSE texts[1] \o <<" ">> \o JoinedWithSpace(Tail(texts))

\* s from its first to its last character that is not white space
Trimmed(s) ==
    LET inked == {k \in 1..Len(s) : s[k] # " "}
    IN  IF inked = {} THEN <<>> ELSE SubSeq(s, Least(inked), Greatest(inked))

\* the texts transcribe_audio returned for the subject, in call order
TextsOf(t) == [k \in 1..Len(TranscriptionsOf(t)) |-> TranscriptionsOf(t)[k].out]

C5_CombinedText ==
    \A t \in 1..Len(grouped_files) :
        (Finished(t) /\ AllTranscribed(t)) =>
            /\ (pc = "loop" /\ i = t + 1) => combined_text = Trimmed(JoinedWithSpace(TextsOf(t)))
            /\ \A k \in 1..Len(AnalysesOf(t)) :
                 AnalysesOf(t)[k].input = Trimmed(JoinedWithSpace(TextsOf(t)))
            /\ \A k \in 1..Len(EntriesOf(t)) :
                 /\ EntriesOf(t)[k].full_transcription_text = Trimmed(JoinedWithSpace(TextsOf(t)))
                 /\ EntriesOf(t)[k].total_transcription_length =
                      Len(Trimmed(JoinedWithSpace(TextsOf(t))))

\* "h " and " w" were combined, in that order, into "h   w" and stored
C5_Witness ==
    \E k \in 1..Len(individual_analyses) :
        /\ Len(individual_analyses[k].processed_files) = 2
        /\ individual_analyses[k].full_transcription_text = <<"h", " ", " ", " ", "w">>

(***************************************************************************)
(* C6.  The subject mapping is a partition of the discovered audio files:  *)
(* each file is in exactly one group, at one place; the key of its group   *)
(* is the part of its base name before the first underscore; files that    *)
(* share that part share the group; no group is empty; and within a group  *)
(* the paths ascend lexicographically.                                     *)
(***************************************************************************)
\* the name matches one of the glob patterns
IsAudioName(n) == \E e \in 1..Len(audio_extensions) : EndsWith(n, audio_extensions[e])

\* the paths of the audio files the directory holds
Discovered == { PathJoin(audio_directory_name, n) : n \in {m \in dir_names : IsAudioName(m)} }

\* p is the part of name before its first underscore
IsPrefixBeforeUnderscore(p, name) ==
    /\ Len(p) <= Len(name)
    /\ SubSeq(name, 1, Len(p)) = p
    /\ \A k \in 1..Len(p) : p[k] # "_"
    /\ Len(p) < Len(name) => name[Len(p) + 1] = "_"

\* the places (group, position) at which a path occurs in grouped_files
PlacesOf(f) ==
    { <<g, k>> \in (1..Len(grouped_files)) \X (1..Cardinality(Discovered)) :
        k <= Len(grouped_files[g].files) /\ grouped_files[g].files[k] = f }

\* the scan and the grouping have been done
Grouped == pc \notin {"main", "idle"} /\ all_files # <<>>

C6_GroupingIsPartition ==
    Grouped =>
        /\ {all_files[k] : k \in 1..Len(all_files)} = Discovered
        /\ \A f \in Discovered :
             /\ Cardinality(PlacesOf(f)) = 1
             /\ \A place \in PlacesOf(f) :
                  IsPrefixBeforeUnderscore(grouped_files[place[1]].subject, Basename(f))
        /\ \A g \in 1..Len(grouped_files) :
             /\ grouped_files[g].files # <<>>
             /\ \A k \in 1..Len(grouped_files[g].files) : grouped_files[g].files[k] \in Discovered
             /\ \A h \in 1..Len(grouped_files) :
                  grouped_files[g].subject = grouped_files[h].subject => g = h
             /\ \A a, b \in 1..Len(grouped_files[g].files) :
                  a < b => StrLess(grouped_files[g].files[a], grouped_files[g].files[b])

\* two files of subject a with different years and extensions share a group,
\* next to the groups of b and of c.mp3
C6_Witness ==
    /\ Grouped
    /\ Len(grouped_files) = 3
    /\ grouped_files[1].subject = <<"a">>
    /\ Len(grouped_files[1].files) = 2
    /\ grouped_files[3].subject = <<"c", ".", "m", "p", "3">>

(***************************************************************************)
(* The four tiers of the credibility label, for the rate n / d (0 when d   *)
(* is 0): above 0.7, above 0.4 up to 0.7, above 0.1 up to 0.4, the rest.   *)
(***************************************************************************)
\* n / d > tenths / 10 and n / d <= tenths / 10, for d > 0
RateAbove(n, d, tenths) == 10 * n > tenths * d

RateAtMost(n, d, tenths) == 10 * n <= tenths * d

TierOf(n, d) ==
    IF d = 0 THEN "High"
    ELSE CASE RateAbove(n, d, 7) -> "Low"
           [] RateAbove(n, d, 4) /\ RateAtMost(n, d, 7) -> "Medium"
           [] RateAbove(n, d, 1) /\ RateAtMost(n, d, 4) -> "Good"
           [] OTHER -> "High"

(***************************************************************************)
(* C7, as stated.  The label is the tier of the rate (total number of      *)
(* deception-pattern entries over all records) / (number of records).      *)
(***************************************************************************)
C7_LabelFromAllEntries ==
    g_pc = "done" => g_credibility = TierOf(entries_seen, total_analyses)

(***************************************************************************)
(* C7, amended.  The label is the tier of the rate (number of deception-   *)
(* pattern entries that are objects with a non-empty lie_type, over all    *)
(* records) / (number of records), 0 when there is no record: "Low" above  *)
(* 0.7, "Medium" above 0.4 up to 0.7, "Good" above 0.1 up to 0.4, "High"   *)
(* otherwise; a rate of exactly 0.7, 0.4 or 0.1 falls in the lower-rate    *)
(* tier, so 2 such entries over 5 records give "Good" and 1 over 2 gives   *)
(* "Medium".                                                               *)
(***************************************************************************)
C7_CredibilityLabel ==
    g_pc = "done" =>
        /\ g_credibility = TierOf(tagged_seen, total_analyses)
        /\ (10 * tagged_seen = 7 * total_analyses /\ total_analyses > 0) => g_credibility = "Medium"
        /\ (10 * tagged_seen = 4 * total_analyses /\ total_analyses > 0) => g_credibility = "Good"
        /\ (10 * tagged_seen = 1 * total_analyses /\ total_analyses > 0) => g_credibility = "High"
        /\ (tagged_seen = 2 /\ total_analyses = 5) => g_credibility = "Good"
        /\ (tagged_seen = 1 /\ total_analyses = 2) => g_credibility = "Medium"
        /\ total_analyses = 0 => g_credibility = "High"

\* seven tagged entries over ten records, a rate of exactly 0.7, labelled "Medium"
C7_Witness ==
    /\ g_pc = "done"
    /\ total_analyses = 10
    /\ tagged_seen = 7
    /\ g_credibility = "Medium"

(***************************************************************************)
(* C8, as stated.  The year never fails: every subject whose files were    *)
(* all transcribed is analyzed under the identifier <subject>_<year>, the  *)
(* year being the second underscore-delimited segment of the first file's  *)
(* name, or "unknown" when that name has fewer than two segments; no error *)
(* is raised for the subject.                                              *)
(***************************************************************************)
YearOrUnknown(name) ==
    IF Len(Split(name, "_")) >= 2 THEN Split(name, "_")[2]
    ELSE <<"u", "n", "k", "n", "o", "w", "n">>

C8_YearNeverFails ==
    \A t \in 1..Len(grouped_files) :
        (Finished(t) /\ AllTranscribed(t)) =>
            /\ Message("Error processing", t) \notin printed
            /\ Len(AnalysesOf(t)) = 1
            /\ AnalysesOf(t)[1].arg =
                 grouped_files[t].subject \o <<"_">>
                   \o YearOrUnknown(Basename(grouped_files[t].files[1]))

(***************************************************************************)
(* C9, as stated.  A directory that exists and holds no audio file: the    *)
(* grouper yields no subject, the condition is reported, neither external  *)
(* service is called, no output file is written, and the run ends without  *)
(* an unhandled error.                                                     *)
(***************************************************************************)
\* the directory was there when the run started
DirectoryWasThere == dir_exists /\ Message("Directory not found", 0) \notin printed

C9_EmptyDirectoryEndsCleanly ==
    (pc = "exited" /\ DirectoryWasThere /\ Discovered = {}) =>
        /\ grouped_files = <<>>
        /\ Message("No audio files found", 0) \in printed
        /\ calls = <<>>
        /\ output_writes = 0
        /\ unhandled = ""

(***************************************************************************)
(* C10, as stated.  The process exits with code 0 whenever at least one    *)
(* subject was analyzed, and with a non-zero code whenever the input       *)
(* directory is missing or holds no audio file.                            *)
(***************************************************************************)
C10_ExitStatus ==
    pc = "exited" =>
        /\ individual_analyses # <<>> => exit_code = 0
        /\ ~DirectoryWasThere => exit_code # 0
        /\ (DirectoryWasThere /\ Discovered = {}) => exit_code # 0

(***************************************************************************)
(* C11.  Call ordering: subjects are gone through one at a time; for each  *)
(* subject the transcription engine is called at most once per file, in    *)
(* the group's order, and not again after a file has failed; the analysis  *)
(* service is called at most once per subject, only after every file of    *)
(* the subject has been transcribed successfully, and before any file of a *)
(* later subject is transcribed.                                           *)
(***************************************************************************)
C11_CallOrdering ==
    /\ \A k \in 1..Len(calls) : calls[k].subject \in 1..Len(grouped_files)
    /\ \A k, l \in 1..Len(calls) :
         k < l =>
            /\ calls[k].subject <= calls[l].subject
            /\ calls[k].subject = calls[l].subject =>
                 calls[k].op = "transcribe" /\ calls[k].ok
    /\ \A t \in 1..Len(grouped_files) :
         /\ Len(TranscriptionsOf(t)) <= Len(grouped_files[t].files)
         /\ \A k \in 1..Len(TranscriptionsOf(t)) :
              TranscriptionsOf(t)[k].arg = grouped_files[t].files[k]
         /\ Len(AnalysesOf(t)) <= 1
         /\ Len(AnalysesOf(t)) = 1 => AllTranscribed(t)

\* a finished run: the first of two files of the first subject failed and
\* the second file was not tried; a later subject was transcribed, then analyzed
C11_Witness ==
    /\ pc = "exited"
    /\ Len(grouped_files) >= 2
    /\ Len(grouped_files[1].files) = 2
    /\ Len(TranscriptionsOf(1)) = 1
    /\ ~TranscriptionsOf(1)[1].ok
    /\ Len(calls) >= 3
    /\ calls[2].op = "transcribe" /\ calls[2].subject = 2
    /\ calls[3].op = "analyze" /\ calls[3].subject = 2

(***************************************************************************)
(* C12, as stated.  The output file is written at most once, only after    *)
(* every subject has been gone through, and only if at least one subject   *)
(* produced an analysis; otherwise no file is written and the function     *)
(* returns (None, None).  When it is written, individual_analyses holds    *)
(* exactly one entry per subject that did not fail, in processing order,   *)
(* and is as long as the list given to generate_consolidated_insights,     *)
(* which is at most total_subjects_analyzed.                               *)
(***************************************************************************)
\* process_multiple_audio_files has returned
FunctionReturned == retval # "running"

\* the position in the processing order of the subject an entry belongs to
SubjectIndexOf(entry) ==
    CHOOSE t \in 1..Len(grouped_files) : grouped_files[t].subject = entry.subject_name

C12_ReportCreation ==
    /\ output_writes <= 1
    /\ output_writes = 1 =>
         /\ \A t \in 1..Len(grouped_files) : Finished(t)
         /\ successful_analyses # <<>>
         /\ written_analyses = individual_analyses
         /\ \A t \in 1..Len(grouped_files) :
              Len(EntriesOf(t)) = (IF AllTranscribed(t) THEN 1 ELSE 0)
         /\ \A k, l \in 1..Len(individual_analyses) :
              k < l => SubjectIndexOf(individual_analyses[k])
                         < SubjectIndexOf(individual_analyses[l])
         /\ Len(individual_analyses) = Len(successful_analyses)
         /\ Len(successful_analyses) <= Len(grouped_files)
    /\ (FunctionReturned /\ successful_analyses = <<>>) =>
         /\ output_writes = 0
         /\ retval = "(None, None)"

====
